---- MODULE Spec2Model ----
(***************************************************************************)
(* BaseTrainer of AUTOENCODER/train/base_trainer.py: the epoch loop of     *)
(* train(), its monitoring / early-stop state, the two checkpoint files    *)
(* written by _save_checkpoint and the restore done by _resume_checkpoint. *)
(*                                                                         *)
(* Metric values are integers; math.inf and -math.inf are the two integers *)
(* just outside the range of finite metric values, so that the integer     *)
(* order is the order Python's < and > compute on them.                    *)
(***************************************************************************)
EXTENDS Integers, FiniteSets, Sequences, TLC

\* ------------------------------------------------------------------ bounds
MaxEpochs == 5
MaxSavePeriod == 2
MaxEarlyStop == 2
MaxMetric == 2
MaxVerbosity == 1

\* ------------------------------------------------------------- value sets
\* -math.inf and math.inf (line 38), below and above every finite metric.
NegInf == 0 - 1
PosInf == MaxMetric + 1
Values == NegInf..PosInf

\* cfg_trainer.get('early_stop', math.inf): the default is above every count
\* a run of at most MaxEpochs epochs can reach.
EarlyStopInf == MaxEpochs + 1
EarlyStops == (0..MaxEarlyStop) \cup {EarlyStopInf}

Modes == {"off", "min", "max"}

\* A checkpoint record (the fields of `state` that train() and
\* _resume_checkpoint read back); NoFile stands for a path with no file, and
\* for resume = None.  No checkpoint is ever saved with epoch 0.
NoFile == [epoch |-> 0, monitor_best |-> 0, logger |-> FALSE]

\* The positions of train(): the loop head, the monitoring block, the
\* checkpoint step, and the five ways of leaving train().
Running == {"for", "monitor", "save"}
Raised == {"raised_hook", "raised_UnboundLocalError", "raised_AttributeError"}
Terminal == {"stopped", "done"} \cup Raised

VARIABLES
    \* configuration read by __init__
    epochs, save_period, verbosity, monitor, early_stop,
    \* fields of the trainer
    mnt_mode, mnt_best, start_epoch, train_logger, resume,
    \* locals of train()
    pc, epoch, log, df, best_df, not_improved_count, improved, best,
    \* files of checkpoint_dir
    checkpoint_current, model_best

config == <<epochs, save_period, verbosity, monitor, early_stop>>
fields == <<mnt_mode, mnt_best, start_epoch, train_logger, resume>>
locals == <<pc, epoch, log, df, best_df, not_improved_count, improved, best>>
files == <<checkpoint_current, model_best>>
vars == <<config, fields, locals, files>>

\* ------------------------------------------------------------ pure helpers
\* __init__, lines 32-38: the best value a fresh trainer starts from.
InitialBest(mode) ==
    IF mode = "off" THEN 0
    ELSE IF mode = "min" THEN PosInf ELSE NegInf

\* __init__, lines 32-39: early_stop is only set when a monitor is configured;
\* with monitor 'off' the attribute is never read, and is held at the default.
InitialEarlyStop(mode, es) ==
    IF mode = "off" THEN EarlyStopInf ELSE es

\* Variant of ResumedStartEpoch: the saved epoch is run again.
ResumedStartEpochSame(ckpt) == ckpt.epoch
\* _resume_checkpoint, line 158.
ResumedStartEpoch(ckpt) == ckpt.epoch + 1

\* _resume_checkpoint, line 159: the restored value replaces the initial one.
ResumedBest(ckpt, mode) == ckpt.monitor_best

\* train(), lines 77-81: df is bound only under a history logger and
\* verbosity >= 1.
BindsDf(logger, verb) == logger /\ verb >= 1

\* Variant of Improved: the two comparators exchanged.
ImprovedSwapped(mode, value, bestv) ==
    \/ (mode = "min" /\ value > bestv)
    \/ (mode = "max" /\ value < bestv)
\* train(), lines 88-89.
Improved(mode, value, bestv) ==
    \/ (mode = "min" /\ value < bestv)
    \/ (mode = "max" /\ value > bestv)

\* Variant of StartCount: the counter starts at 1.
StartCountOne == 0 + 1
\* train(), line 70: the counter is a local of train(), set at its entry; it
\* is not a field of the checkpoint record.
StartCount == 0

\* Variant of CountAfter: the KeyError handler leaves the counter alone.
CountAfterNoReset(keyError, imp, count) ==
    IF imp THEN 0 ELSE count + 1
\* train(), lines 91-102: the KeyError handler resets the counter, then the
\* improved / not improved branch resets or increments it.
CountAfter(keyError, imp, count) ==
    IF imp THEN 0 ELSE (IF keyError THEN 0 ELSE count) + 1

\* Variant of ExceedsEarlyStop: >= in place of >.
ExceedsEarlyStopOrEqual(count, threshold) == count >= threshold
\* train(), line 103.
ExceedsEarlyStop(count, threshold) == count > threshold

\* Variant of SavePeriodHit: every epoch is a save epoch.
SavePeriodHitAlways(e, period) == TRUE
\* train(), line 110.
SavePeriodHit(e, period) == e % period = 0

\* _save_checkpoint, lines 130-139.
State(e) ==
    [epoch |-> e, monitor_best |-> mnt_best, logger |-> train_logger]

\* Variants of SaveCheckpoint: save_best taken as False; save_best taken as
\* True; and the record renamed to model_best (as the docstring has it)
\* instead of copied.
SaveCheckpointNeverBest(e, save_best) ==
    /\ checkpoint_current' = State(e)
    /\ model_best' = model_best
SaveCheckpointAlwaysBest(e, save_best) ==
    /\ checkpoint_current' = State(e)
    /\ model_best' = State(e)
SaveCheckpointBestOnly(e, save_best) ==
    /\ checkpoint_current' = IF save_best THEN checkpoint_current ELSE State(e)
    /\ model_best' = IF save_best THEN State(e) ELSE model_best
\* _save_checkpoint, lines 141-148: the record goes to checkpoint-current,
\* and to model_best as well when save_best.
SaveCheckpoint(e, save_best) ==
    /\ checkpoint_current' = State(e)
    /\ model_best' = IF save_best THEN State(e) ELSE model_best

\* ---------------------------------------------------------------- __init__
\* __init__, lines 15-63: the fields of a trainer built from a configuration,
\* a train_logger argument and a resume record (NoFile for resume = None).
\* checkpoint_dir is named after the start time, so the trainer's own
\* checkpoint files do not exist yet.
Construct(e, sp, verb, mon, es, logger, ckpt) ==
    [epochs |-> e, save_period |-> sp, verbosity |-> verb, monitor |-> mon,
     early_stop |-> InitialEarlyStop(mon, es),
     mnt_mode |-> mon,
     mnt_best |-> IF ckpt = NoFile THEN InitialBest(mon) ELSE ResumedBest(ckpt, mon),
     start_epoch |-> IF ckpt = NoFile THEN 1 ELSE ResumedStartEpoch(ckpt),
     train_logger |-> IF ckpt = NoFile THEN logger ELSE ckpt.logger,
     resume |-> ckpt]

\* The first trainer: no checkpoint exists yet, so resume is None.
Init ==
    \E e \in 1..MaxEpochs, sp \in 1..MaxSavePeriod, verb \in 0..MaxVerbosity,
       mon \in Modes, es \in EarlyStops, logger \in BOOLEAN :
        LET t == Construct(e, sp, verb, mon, es, logger, NoFile) IN
        /\ epochs = t.epochs
        /\ save_period = t.save_period
        /\ verbosity = t.verbosity
        /\ monitor = t.monitor
        /\ early_stop = t.early_stop
        /\ mnt_mode = t.mnt_mode
        /\ mnt_best = t.mnt_best
        /\ start_epoch = t.start_epoch
        /\ train_logger = t.train_logger
        /\ resume = t.resume
        /\ pc = "for"
        /\ epoch = t.start_epoch - 1
        /\ log = [has_metric |-> FALSE, metric |-> 0]
        /\ df = 0
        /\ best_df = 0
        /\ not_improved_count = StartCount
        /\ improved = FALSE
        /\ best = FALSE
        /\ checkpoint_current = NoFile
        /\ model_best = NoFile

\* ------------------------------------------------------------------ train()
\* Lines 71-84: the next epoch's hook returns a result, with or without the
\* monitored key; the log record is built and, under a history logger with
\* verbosity >= 1, the data frame df of this epoch.
TrainEpoch ==
    /\ pc = "for"
    /\ epoch + 1 <= epochs
    /\ \E has \in BOOLEAN, v \in Values :
        /\ (~has => v = 0)
        /\ log' = [has_metric |-> has, metric |-> v]
    /\ epoch' = epoch + 1
    /\ df' = IF BindsDf(train_logger, verbosity) THEN epoch + 1 ELSE df
    /\ pc' = "monitor"
    /\ UNCHANGED <<config, fields, files, best_df, not_improved_count, improved, best>>

\* Variant of TrainEpochRaises: the failure is caught long enough to write
\* an emergency checkpoint of the failed epoch.
TrainEpochRaisesCheckpointed ==
    /\ pc = "for"
    /\ epoch + 1 <= epochs
    /\ epoch' = epoch + 1
    /\ pc' = "raised_hook"
    /\ checkpoint_current' = State(epoch + 1)
    /\ UNCHANGED <<config, fields, model_best, log, df, best_df,
                   not_improved_count, improved, best>>
\* Lines 72 and 119: the hook raises; nothing is caught.
TrainEpochRaises ==
    /\ pc = "for"
    /\ epoch + 1 <= epochs
    /\ epoch' = epoch + 1
    /\ pc' = "raised_hook"
    /\ UNCHANGED <<config, fields, files, log, df, best_df, not_improved_count,
                   improved, best>>

\* Line 71: range(start_epoch, epochs + 1) is exhausted.
LoopExit ==
    /\ pc = "for"
    /\ epoch + 1 > epochs
    /\ pc' = "done"
    /\ UNCHANGED <<config, fields, files, epoch, log, df, best_df,
                   not_improved_count, improved, best>>

\* Lines 85-106: the monitoring block.  A missing key raises KeyError in the
\* comparison (whichever the mode); line 100 reads df, which is unbound
\* unless line 80 ran; line 105 reads best_df.loc, and best_df is None until
\* an epoch of this run improved.
Monitor ==
    /\ pc = "monitor"
    /\ IF mnt_mode = "off"
       THEN /\ best' = FALSE
            /\ pc' = "save"
            /\ UNCHANGED <<mnt_mode, mnt_best, improved, not_improved_count, best_df>>
       ELSE LET keyError == ~log.has_metric
                imp == IF keyError THEN FALSE
                       ELSE Improved(mnt_mode, log.metric, mnt_best)
                cnt == CountAfter(keyError, imp, not_improved_count)
                unbound == imp /\ df = 0
                newBestDf == IF imp /\ df # 0 THEN df ELSE best_df
            IN  /\ mnt_mode' = IF keyError THEN "off" ELSE mnt_mode
                /\ improved' = imp
                /\ mnt_best' = IF imp THEN log.metric ELSE mnt_best
                /\ not_improved_count' = cnt
                /\ best' = imp
                /\ best_df' = newBestDf
                /\ pc' = IF unbound THEN "raised_UnboundLocalError"
                         ELSE IF ExceedsEarlyStop(cnt, early_stop)
                              THEN IF newBestDf = 0 THEN "raised_AttributeError"
                                   ELSE "stopped"
                              ELSE "save"
    /\ UNCHANGED <<config, start_epoch, train_logger, resume, files, epoch, log, df>>

\* Lines 107-111: the checkpoint step of an epoch that did not leave the loop.
Save ==
    /\ pc = "save"
    /\ IF SavePeriodHit(epoch, save_period)
       THEN SaveCheckpoint(epoch, best)
       ELSE UNCHANGED files
    /\ pc' = "for"
    /\ UNCHANGED <<config, fields, epoch, log, df, best_df, not_improved_count,
                   improved, best>>

\* After train() has returned or raised the process is over: of the state
\* above only the checkpoint files remain.  The next trainer is given
\* resume = None or one of the files on disk (the two just written, or the
\* one this trainer was resumed from); its own checkpoint_dir, named after
\* its start time (lines 43-44), holds no checkpoint yet.
Exit ==
    /\ pc \in Terminal
    /\ resume' \in {NoFile, checkpoint_current, model_best, resume}
    /\ pc' = "exited"
    /\ epochs' = 1
    /\ save_period' = 1
    /\ verbosity' = 0
    /\ monitor' = "off"
    /\ early_stop' = EarlyStopInf
    /\ mnt_mode' = "off"
    /\ mnt_best' = 0
    /\ start_epoch' = 1
    /\ train_logger' = FALSE
    /\ epoch' = 0
    /\ log' = [has_metric |-> FALSE, metric |-> 0]
    /\ df' = 0
    /\ best_df' = 0
    /\ not_improved_count' = 0
    /\ improved' = FALSE
    /\ best' = FALSE
    /\ checkpoint_current' = NoFile
    /\ model_best' = NoFile

\* __init__ (lines 15-63) with resume set, under any configuration, followed
\* by the entry of train() (lines 69-70).
Resume ==
    /\ pc = "exited"
    /\ \E e \in 1..MaxEpochs, sp \in 1..MaxSavePeriod, verb \in 0..MaxVerbosity,
          mon \in Modes, es \in EarlyStops, logger \in BOOLEAN :
        LET t == Construct(e, sp, verb, mon, es, logger, resume) IN
        /\ epochs' = t.epochs
        /\ save_period' = t.save_period
        /\ verbosity' = t.verbosity
        /\ monitor' = t.monitor
        /\ early_stop' = t.early_stop
        /\ mnt_mode' = t.mnt_mode
        /\ mnt_best' = t.mnt_best
        /\ start_epoch' = t.start_epoch
        /\ train_logger' = t.train_logger
        /\ epoch' = t.start_epoch - 1
    /\ pc' = "for"
    /\ not_improved_count' = StartCount
    /\ UNCHANGED <<resume, files, log, df, best_df, improved, best>>

Next ==
    \/ TrainEpoch
    \/ TrainEpochRaises
    \/ LoopExit
    \/ Monitor
    \/ Save
    \/ Exit
    \/ Resume

Spec == Init /\ [][Next]_vars

TypeOK ==
    /\ epochs \in 1..MaxEpochs
    /\ save_period \in 1..MaxSavePeriod
    /\ verbosity \in 0..MaxVerbosity
    /\ monitor \in Modes
    /\ early_stop \in EarlyStops
    /\ mnt_mode \in Modes
    /\ mnt_best \in Values
    /\ start_epoch \in 1..(MaxEpochs + 1)
    /\ train_logger \in BOOLEAN
    /\ pc \in Running \cup Terminal \cup {"exited"}
    /\ epoch \in 0..MaxEpochs
    /\ df \in 0..MaxEpochs
    /\ best_df \in 0..MaxEpochs
    /\ not_improved_count \in 0..MaxEpochs
    /\ improved \in BOOLEAN
    /\ best \in BOOLEAN

\* ------------------------------------------------------------------ claims
\* The file was written by the checkpoint step of the current epoch: a
\* trainer's directory starts empty and its epochs only increase.
WrittenThisEpoch(f) == f # NoFile /\ f.epoch = epoch

\* An epoch of this run went through its checkpoint step.
EpochEnded == pc \in {"for", "done"} /\ epoch >= start_epoch

\* Line 103's branch was taken: train() is at its break, or raised while
\* logging the final metrics on the way to it.
EarlyStopTaken == pc \in {"stopped", "raised_AttributeError"}

Better(mode, a, b) == IF mode = "min" THEN (IF a < b THEN a ELSE b)
                      ELSE (IF a > b THEN a ELSE b)

\* C1: the early-stop branch is taken in an epoch exactly when the counter
\* after that epoch's monitoring step is strictly greater than the
\* threshold: train() is never at its break with the counter at or below
\* the threshold, and a counter above the threshold is only ever seen with
\* the loop left (no further hook can be invoked).
C1_EarlyStopIffCounterExceeds ==
    /\ (pc = "stopped" => not_improved_count > early_stop)
    /\ (not_improved_count > early_stop => EarlyStopTaken)
    /\ (pc \in {"save", "for", "monitor", "done"} => not_improved_count <= early_stop)

C1_Witness ==
    /\ pc = "stopped"
    /\ not_improved_count = early_stop + 1
    /\ early_stop >= 1
    /\ epoch < epochs

\* C2 (as stated): after the monitoring step of an epoch with monitoring
\* enabled the counter is 0 if the epoch improved and the previous counter
\* plus one otherwise, the epoch with the key missing included.
C2_CounterPlusOneEvenOnMissingKey ==
    [][(pc = "monitor" /\ mnt_mode # "off") =>
        not_improved_count' = IF improved' THEN 0 ELSE not_improved_count + 1]_vars

\* C2 (amended): after the monitoring step of an epoch with monitoring
\* enabled the counter is 0 if the epoch improved, the previous counter plus
\* one if the key is present and the epoch did not improve, and exactly 1 in
\* the epoch in which the key is missing; with monitoring off it is unchanged.
C2_CounterAfterEpoch ==
    [][pc = "monitor" =>
        /\ (mnt_mode # "off" =>
              not_improved_count' =
                 IF improved' THEN 0
                 ELSE IF log.has_metric THEN not_improved_count + 1 ELSE 1)
        /\ (mnt_mode = "off" => not_improved_count' = not_improved_count)
        /\ (improved' => log.has_metric /\ mnt_mode # "off")]_vars

\* A missing key in an epoch that follows a non-improving one: no epoch of
\* the run improved (best_df is None), so the counter before was >= 1.
C2_Witness ==
    /\ pc = "save"
    /\ monitor # "off" /\ mnt_mode = "off" /\ ~log.has_metric
    /\ epoch > start_epoch
    /\ best_df = 0
    /\ not_improved_count = 1

\* C3 (as stated): at the end of every processed epoch, the early-stop epoch
\* included, checkpoint-current was written in it iff epoch % save_period = 0.
C3_CheckpointEvenOnEarlyStop ==
    ((EpochEnded \/ pc = "stopped") =>
        (WrittenThisEpoch(checkpoint_current) <=> epoch % save_period = 0))

\* C3 (amended): an epoch that reaches the checkpoint step writes
\* checkpoint-current iff epoch % save_period = 0; an epoch that leaves the
\* loop at its monitoring step (early stop included) writes no checkpoint.
C3_CheckpointIffPeriod ==
    /\ (EpochEnded =>
          (WrittenThisEpoch(checkpoint_current) <=> epoch % save_period = 0))
    /\ (pc \in {"monitor", "save", "stopped"} \cup Raised =>
          ~WrittenThisEpoch(checkpoint_current))

C3_Witness ==
    /\ pc = "stopped"
    /\ epoch % save_period = 0
    /\ checkpoint_current # NoFile
    /\ checkpoint_current.epoch = epoch - save_period

\* C4 (as stated): every epoch marked best has model_best persisted for it,
\* whatever the save period.
C4_BestAlwaysPersisted ==
    ((EpochEnded /\ best) => WrittenThisEpoch(model_best))

\* C4 (amended): an epoch marked best that reaches the checkpoint step has
\* model_best persisted for it, holding that epoch's metric as best value,
\* iff its number is divisible by save_period.
C4_BestPersistedOnPeriod ==
    ((EpochEnded /\ best) =>
        /\ (WrittenThisEpoch(model_best) <=> epoch % save_period = 0)
        /\ (WrittenThisEpoch(model_best) =>
              model_best.monitor_best = log.metric /\ mnt_best = log.metric))

C4_Witness ==
    /\ EpochEnded /\ best
    /\ save_period > 1
    /\ epoch % save_period = 0
    /\ WrittenThisEpoch(model_best)

\* C5: in an epoch whose result lacks the monitored key (monitoring enabled
\* until then), the monitoring step disables monitoring, marks nothing best,
\* and goes on to the checkpoint step: it neither stops nor raises.  Stated
\* for a run in which an earlier epoch improved (best_df is bound), where
\* line 105 cannot raise.
C5_MissingKeyContinues ==
    [][(pc = "monitor" /\ mnt_mode # "off" /\ ~log.has_metric /\ best_df # 0) =>
        (pc' = "save" /\ mnt_mode' = "off" /\ ~best')]_vars

\* C6: whenever the counter exceeds the threshold, train() has logged the
\* final metrics and left the loop by its break, without an exception.
\* Stated for epochs whose result holds the monitored key (monitoring is
\* still enabled).
C6_EarlyStopLeavesNormally ==
    ((not_improved_count > early_stop /\ mnt_mode # "off") => pc = "stopped")

\* C7: on every improving epoch, with or without a history logger and at any
\* verbosity, the best value becomes the epoch's metric, the counter is 0,
\* the epoch is marked best and the checkpoint step comes next.
C7_ImprovingEpochProceeds ==
    [][(pc = "monitor" /\ log.has_metric
          /\ ((mnt_mode = "min" /\ log.metric < mnt_best)
                \/ (mnt_mode = "max" /\ log.metric > mnt_best)))
        => (pc' = "save" /\ mnt_best' = log.metric
              /\ not_improved_count' = 0 /\ best')]_vars

\* The step property of C8: the best value never gets worse: under
\* mode "min" it never increases and under "max" it never decreases; after an
\* epoch's monitoring step it is the better of its previous value and the
\* epoch's metric; it changes only in a monitoring step, to that epoch's
\* metric, which is then strictly better than the previous value.
C8_Step ==
    pc \in Running =>
        /\ (monitor = "min" => mnt_best' <= mnt_best)
        /\ (monitor = "max" => mnt_best' >= mnt_best)
        /\ (monitor = "off" => mnt_best' = mnt_best)
        /\ (pc = "monitor" /\ mnt_mode # "off" /\ log.has_metric =>
              mnt_best' = Better(mnt_mode, log.metric, mnt_best))
        /\ (mnt_best' # mnt_best =>
              /\ pc = "monitor" /\ mnt_mode # "off" /\ log.has_metric
              /\ mnt_best' = log.metric
              /\ best')

\* C8: every step of a run keeps the best value from getting worse, and
\* changes it only to a strictly better epoch metric.
C8_BestNeverWorse == [][C8_Step]_vars

C8_Witness ==
    /\ pc = "save"
    /\ monitor = "max" /\ best
    /\ epoch > start_epoch
    /\ best_df = epoch
    /\ mnt_best = log.metric
    /\ mnt_best > 0

\* The step property of C9: a checkpoint saved at epoch E holds epoch E and the best value B of
\* that moment; a trainer constructed with it as resume path has start_epoch
\* E+1 and best value B whatever the configured mode, and the first epoch its
\* train() runs is E+1, monitored against B.
C9_Step ==
    /\ (pc = "save" /\ checkpoint_current' # checkpoint_current =>
              /\ checkpoint_current'.epoch = epoch
              /\ checkpoint_current'.monitor_best = mnt_best)
    /\ (pc = "exited" /\ resume # NoFile =>
              /\ start_epoch' = resume.epoch + 1
              /\ mnt_best' = resume.monitor_best)
    /\ (pc = "for" /\ epoch < start_epoch /\ pc' \in {"monitor", "raised_hook"}
              /\ resume # NoFile =>
              /\ epoch' = resume.epoch + 1
              /\ mnt_best' = resume.monitor_best)

\* C9: save / resume round trip: every save writes (E, B), every resume
\* restores start_epoch = E + 1 and best value B, and the first epoch run is
\* E + 1.
C9_SaveResumeRoundTrip == [][C9_Step]_vars

\* The first monitoring step of a resumed run whose restored best value is
\* not the initial value of the configured mode.
C9_Witness ==
    /\ pc = "monitor"
    /\ resume # NoFile
    /\ epoch = start_epoch /\ epoch = resume.epoch + 1
    /\ monitor = "min"
    /\ mnt_best = resume.monitor_best
    /\ mnt_best # InitialBest(monitor)

C11_FrameStep ==
    (pc \in Running /\ mnt_mode = "off") =>
        /\ mnt_best' = mnt_best
        /\ not_improved_count' = not_improved_count
        /\ mnt_mode' = "off"
        /\ ~best'
        /\ model_best' = model_best
        /\ pc' \in Running \cup {"done", "raised_hook"}

\* C11 (frame part): once monitoring is disabled, every later step of the run
\* leaves the best value, the counter and model_best alone and marks nothing
\* best.
C11_LaterEpochsUntouched == [][C11_FrameStep]_vars

\* C11: once an epoch's result lacked the monitored key (monitoring was
\* configured and is now disabled), no epoch is marked best and train() ends
\* only after the last configured epoch or by a failing hook: no early stop,
\* all remaining epochs are run.  Stated for a run in which an earlier
\* epoch improved (best_df is bound), where line 105 cannot raise.
C11_DisabledRunsAllEpochs ==
    ((monitor # "off" /\ mnt_mode = "off" /\ best_df # 0) =>
        /\ ~best
        /\ (pc \in Terminal => (pc = "raised_hook" \/ (pc = "done" /\ epoch = epochs))))

\* ------------------------------------------------- the worked example (C12)
\* The losses 1.0, 0.9, 0.95, 0.95 of epochs 1..4, as integers in the same
\* order: 0.9 < 0.95 < 1.0.
ExampleLoss(e) ==
    CASE e = 1 -> 2
      [] e = 2 -> 0
      [] e \in {3, 4} -> 1

\* __init__ (lines 15-63) for the example: monitor 'min loss', early_stop 2,
\* no resume; the rest of the configuration and the train_logger argument
\* are whatever the caller passes.
InitExample ==
    /\ Init
    /\ monitor = "min"
    /\ early_stop = 2

\* Lines 71-84 for the example: the hook returns the example's loss in
\* epochs 1..4 and any result afterwards.
TrainEpochExample ==
    /\ TrainEpoch
    /\ (epoch' <= 4 => log' = [has_metric |-> TRUE, metric |-> ExampleLoss(epoch')])

NextExample ==
    \/ TrainEpochExample
    \/ LoopExit
    \/ Monitor
    \/ Save

SpecExample == InitExample /\ [][NextExample]_vars

\* C12: in the example run the best value is 0.9 from epoch 2 on, the
\* counter is 2 after epoch 4, train() does not stop at epoch 4, and it stops
\* at the next epoch whose loss does not improve, when the counter becomes 3.
C12_WorkedExample ==
    /\ pc \notin Raised
    /\ ((epoch = 2 /\ pc # "monitor") \/ epoch \in {3, 4} \/ (epoch = 5 /\ pc = "monitor")
          => mnt_best = ExampleLoss(2))
    /\ (epoch = 4 /\ pc # "monitor" => not_improved_count = 2 /\ pc \in {"save", "for", "done"})
    /\ (epoch = 5 /\ pc # "monitor" /\ log.has_metric /\ ~improved
          => not_improved_count = 3 /\ pc = "stopped")

\* The last epoch of range(start_epoch, epochs + 1), or start_epoch - 1 when
\* the range is empty.
LastEpoch == IF start_epoch > epochs THEN start_epoch - 1 ELSE epochs

\* C13: the hook is only invoked for epochs of start_epoch..epochs; train()
\* ends by early stop, by a failing hook, or after the hook was invoked for
\* every epoch up to the configured count; and with start_epoch > epochs it
\* invokes no hook and writes no checkpoint.
C13_EveryEpochRun ==
    /\ (pc \in {"monitor", "save", "stopped"} \cup Raised =>
          start_epoch <= epoch /\ epoch <= epochs)
    /\ (pc \in {"for", "done"} => start_epoch - 1 <= epoch /\ epoch <= LastEpoch)
    /\ (pc \in Terminal =>
          \/ EarlyStopTaken
          \/ pc = "raised_hook"
          \/ (pc = "done" /\ epoch = LastEpoch))
    /\ (pc \in Running \cup Terminal /\ start_epoch > epochs =>
          /\ pc \in {"for", "done"}
          /\ checkpoint_current = NoFile /\ model_best = NoFile)

\* The step property of C14: the step in which the hook raises changes
\* neither the monitoring state nor a checkpoint file, and after it train()
\* takes no further step (the process can only end).
C14_Step ==
    /\ (pc = "for" /\ pc' = "raised_hook" =>
          /\ mnt_best' = mnt_best
          /\ mnt_mode' = mnt_mode
          /\ not_improved_count' = not_improved_count
          /\ checkpoint_current' = checkpoint_current
          /\ model_best' = model_best)
    /\ (pc = "raised_hook" => pc' = "exited")

\* C14: a hook failure in epoch e propagates out of train() without retry:
\* no later hook is invoked, and the best value, the counter and both
\* checkpoint files stay as they were at the end of epoch e-1.
C14_HookFailurePropagates == [][C14_Step]_vars

C14_Witness ==
    /\ pc = "raised_hook"
    /\ epoch > start_epoch /\ epoch < epochs
    /\ not_improved_count > 0
    /\ checkpoint_current # NoFile /\ checkpoint_current.epoch = epoch - 1
    /\ model_best # NoFile

\* The epochs of this run that are past their checkpoint step or were left
\* at their monitoring step: all up to `epoch`, less the one in progress or
\* the one whose hook raised.
CompletedEpoch == IF pc \in {"monitor", "save", "raised_hook"} THEN epoch - 1 ELSE epoch

\* The largest epoch of start_epoch..e divisible by save_period, 0 if none.
LastSaveEpoch(e) ==
    LET S == {x \in start_epoch..e : x % save_period = 0}
    IN  IF S = {} THEN 0 ELSE CHOOSE x \in S : \A y \in S : y <= x

\* C15: with monitor 'off' train() never takes the early-stop branch and
\* never marks an epoch best; it ends only after the last epoch (or by a
\* failing hook), the best value stays 0 or the resumed value, model_best is
\* never written, and checkpoint-current holds the last completed epoch
\* divisible by save_period.
C15_MonitorOff ==
    ((monitor = "off" /\ pc \in Running \cup Terminal) =>
        /\ pc \in Running \cup {"done", "raised_hook"}
        /\ (pc = "done" => epoch = LastEpoch)
        /\ ~best /\ ~improved
        /\ not_improved_count = 0
        /\ mnt_best = (IF resume = NoFile THEN 0 ELSE resume.monitor_best)
        /\ model_best = NoFile
        /\ checkpoint_current.epoch = LastSaveEpoch(CompletedEpoch))

C15_Witness ==
    /\ monitor = "off" /\ pc = "done"
    /\ resume # NoFile
    /\ mnt_best = resume.monitor_best /\ mnt_best # 0
    /\ epoch = epochs /\ epoch > start_epoch
    /\ save_period = 2
    /\ checkpoint_current.epoch = epoch - 1

\* The number of epochs of this run whose monitoring step has acted.
MonitoredEpochs ==
    IF pc \in {"monitor", "raised_hook"} THEN epoch - start_epoch
    ELSE epoch - start_epoch + 1

\* C16: train() starts with the counter at 0, resumed or not; the counter
\* never exceeds the number of epochs monitored in this run, so the
\* early-stop branch is taken only after early_stop + 1 epochs of this run,
\* whatever streak preceded the checkpoint it was resumed from.
C16_CounterNotResumed ==
    (pc \in Running \cup Terminal =>
        /\ (pc = "for" /\ epoch = start_epoch - 1 => not_improved_count = 0)
        /\ not_improved_count <= MonitoredEpochs
        /\ (EarlyStopTaken =>
              /\ not_improved_count = early_stop + 1
              /\ MonitoredEpochs >= early_stop + 1))

\* A resumed run in which every epoch so far failed to improve on the
\* restored best value, with the counter at the threshold and train() still
\* running.
C16_Witness ==
    /\ pc = "for"
    /\ resume # NoFile /\ resume.epoch >= 2
    /\ monitor # "off" /\ mnt_mode # "off"
    /\ mnt_best = resume.monitor_best
    /\ early_stop >= 1
    /\ not_improved_count = early_stop
    /\ not_improved_count = MonitoredEpochs
    /\ epoch < epochs

\* The last epoch of this run whose hook returned and at which the
\* early-stop branch was not taken; the epoch in progress does not count
\* before its checkpoint step.
ProcessedNotStopped ==
    IF pc \in {"monitor", "save", "raised_hook"} \/ EarlyStopTaken
    THEN epoch - 1 ELSE epoch

\* C17: whenever checkpoint-current exists, its epoch is the largest
\* processed epoch divisible by save_period at which the loop did not stop
\* early, and it holds the best value the trainer had at the end of that
\* epoch: the trainer's own best value when it is the current epoch.
C17_CurrentFileIsLastSaveEpoch ==
    ((pc \in Running \cup Terminal /\ checkpoint_current # NoFile) =>
        /\ checkpoint_current.epoch = LastSaveEpoch(ProcessedNotStopped)
        /\ (checkpoint_current.epoch = epoch =>
              checkpoint_current.monitor_best = mnt_best))

\* Value a is not better than value b under the configured monitor mode.
NotBetter(mode, a, b) == IF mode = "min" THEN a >= b ELSE a <= b

====
